---- MODULE Spec2Model ----
(***************************************************************************)
(* Model of dp_solving / compute_cost (src/dispatch_optim.py).             *)
(*                                                                         *)
(* Python floats are IEEE-754 binary64.  A non-negative float is held      *)
(* exactly as a 4-limb fixed-point number <<l0, l1, l2, l3>> of value      *)
(*     (l0 + l1*B + l2*B^2 + l3*B^3) / 2^60      with B = 2^20,            *)
(* so l3 is the integer part and l2,l1,l0 the 60 fraction bits.  Every     *)
(* float operation of the source is the exact operation followed by        *)
(* rounding to 53 significant bits, ties to even (Round53).                *)
(* Decimal inputs (load, pmin, pmax, efficiency) are carried in            *)
(* hundredths; FromDec turns them into the float the literal denotes.      *)
(***************************************************************************)
EXTENDS Integers, Sequences, FiniteSets, TLC

\* ------------------------------------------------------------------------
\* Bounds of the model
\* ------------------------------------------------------------------------
MaxPlants == 2
MaxLoad == 3

\* ------------------------------------------------------------------------
\* binary64 arithmetic
\* ------------------------------------------------------------------------
B == 1048576
HalfB == 524288

Zero == <<0, 0, 0, 0>>

Normalise(x) ==
  LET c1 == x[1] \div B
      s2 == x[2] + c1
      c2 == s2 \div B
      s3 == x[3] + c2
      c3 == s3 \div B
  IN  <<x[1] % B, s2 % B, s3 % B, x[4] + c3>>

RECURSIVE BitLen(_)
BitLen(n) == IF n = 0 THEN 0 ELSE 1 + BitLen(n \div 2)

\* number of significant bits of the fixed-point number
Bits(x) ==
  IF x[4] # 0 THEN 60 + BitLen(x[4])
  ELSE IF x[3] # 0 THEN 40 + BitLen(x[3])
  ELSE IF x[2] # 0 THEN 20 + BitLen(x[2])
  ELSE BitLen(x[1])

\* round an exact value to 53 significant bits, ties to even; sticky says
\* that the exact value lies strictly above x (a division left a remainder)
Round53(x, sticky) ==
  LET sh == Bits(x) - 53
  IN  IF sh <= 0 THEN x
      ELSE LET p    == 2 ^ sh
               half == 2 ^ (sh - 1)
               r    == x[1] % p
               qodd == IF sh < 20 THEN ((x[1] \div p) % 2) = 1
                                  ELSE (x[2] % 2) = 1
               up   == \/ r > half
                       \/ r = half /\ (sticky \/ qodd)
           IN  Normalise(<<x[1] - r + (IF up THEN p ELSE 0), x[2], x[3], x[4]>>)

\* float + float
FAdd(x, y) ==
  Round53(Normalise(<<x[1] + y[1], x[2] + y[2], x[3] + y[3], x[4] + y[4]>>), FALSE)

\* exact product with a small non-negative integer
MulExact(x, c) == Normalise(<<x[1] * c, x[2] * c, x[3] * c, x[4] * c>>)

\* float * integer-valued float
FMul(x, c) == Round53(MulExact(x, c), FALSE)

\* float / integer-valued float
FDiv(x, d) ==
  LET q4 == x[4] \div d
      r4 == x[4] % d
      n3 == r4 * B + x[3]
      q3 == n3 \div d
      r3 == n3 % d
      n2 == r3 * B + x[2]
      q2 == n2 \div d
      r2 == n2 % d
      n1 == r2 * B + x[1]
      q1 == n1 \div d
      r1 == n1 % d
  IN  Round53(<<q1, q2, q3, q4>>, r1 # 0)

FromInt(n) == <<0, 0, 0, n>>

\* the float denoted by the decimal n/den
FromDec(n, den) == FDiv(FromInt(n), den)

FLt(x, y) ==
  \/ x[4] < y[4]
  \/ x[4] = y[4] /\ x[3] < y[3]
  \/ x[4] = y[4] /\ x[3] = y[3] /\ x[2] < y[2]
  \/ x[4] = y[4] /\ x[3] = y[3] /\ x[2] = y[2] /\ x[1] < y[1]

FLe(x, y) == x = y \/ FLt(x, y)

\* nearest integer of an exact value, ties to even: Python round(x)
RoundInt(x) ==
  LET gt == \/ x[3] > HalfB
            \/ x[3] = HalfB /\ (x[2] > 0 \/ x[1] > 0)
      eq == x[3] = HalfB /\ x[2] = 0 /\ x[1] = 0
  IN  IF gt \/ (eq /\ x[4] % 2 = 1) THEN x[4] + 1 ELSE x[4]

\* Python round(x, 1): the float nearest to the decimal tenth nearest to x
Round1(x) == FromDec(RoundInt(MulExact(x, 10)), 10)

\* Python int(round(x * 10))
StepsOf(x) == RoundInt(FMul(x, 10))

\* ------------------------------------------------------------------------
\* Payloads
\* ------------------------------------------------------------------------
PlantNames == <<"a", "b", "c", "d", "e">>

\* (pmin, pmax) in hundredths of a power unit
ThermalRanges == {<<0, 30>>, <<10, 20>>, <<14, 30>>, <<20, 10>>}
WindPmax == {20, 40}

ThermalKinds ==
  {[type |-> "gasfired", efficiency |-> e, pmin |-> r[1], pmax |-> r[2]] :
      e \in {50, 100}, r \in ThermalRanges}
  \cup
  {[type |-> "turbojet", efficiency |-> 100, pmin |-> r[1], pmax |-> r[2]] :
      r \in {<<0, 30>>, <<20, 10>>}}

WindKinds ==
  {[type |-> "windturbine", efficiency |-> 100, pmin |-> 0, pmax |-> m] :
      m \in WindPmax}

PlantKinds == ThermalKinds \cup WindKinds

\* prices are whole numbers; "co2(euro/ton)" is never read by the solver
FuelSets == {[gas |-> 1, kerosine |-> 2, wind |-> 50]}

\* loads in hundredths: every tenth up to MaxLoad tenths, and 0.16
Loads == {10 * k : k \in 0..MaxLoad} \cup {16}

Named(kinds) ==
  [j \in 1..Len(kinds) |->
     [name |-> PlantNames[j], type |-> kinds[j].type,
      efficiency |-> kinds[j].efficiency,
      pmin |-> kinds[j].pmin, pmax |-> kinds[j].pmax]]

Payloads ==
  {[load |-> l, fuels |-> f, powerplants |-> Named(ks)] :
      l \in Loads, f \in FuelSets,
      ks \in UNION {[1..n -> PlantKinds] : n \in 1..MaxPlants}}

\* ------------------------------------------------------------------------
\* compute_cost
\* ------------------------------------------------------------------------
\* price / efficiency; the efficiencies of the model are 1 and 0.5, for
\* which the float quotient of a whole price is the exact whole number
compute_cost(fuels, plants) ==
  IF plants.type = "gasfired" THEN (fuels.gas * 100) \div plants.efficiency
  ELSE IF plants.type = "turbojet" THEN (fuels.kerosine * 100) \div plants.efficiency
  ELSE 0

\* ------------------------------------------------------------------------
\* dp_solving: merit order
\* ------------------------------------------------------------------------
\* the sort key (x["type"]=="windturbine", compute_cost(...)); tuples compare
\* lexicographically and False < True
KeyLt(fuels, x, y) ==
  LET xw == x.type = "windturbine"
      yw == y.type = "windturbine"
  IN  \/ ~xw /\ yw
      \/ xw = yw /\ compute_cost(fuels, x) < compute_cost(fuels, y)

\* stable insertion: x goes before the first element whose key is greater
RECURSIVE InsertSorted(_, _, _)
InsertSorted(fuels, s, x) ==
  IF s = <<>> THEN <<x>>
  ELSE IF KeyLt(fuels, x, Head(s)) THEN <<x>> \o s
  ELSE <<Head(s)>> \o InsertSorted(fuels, Tail(s), x)

RECURSIVE SortedUpTo(_, _, _)
SortedUpTo(fuels, plants, k) ==
  IF k = 0 THEN <<>>
  ELSE InsertSorted(fuels, SortedUpTo(fuels, plants, k - 1), plants[k])

SortedPlants(pl) == SortedUpTo(pl.fuels, pl.powerplants, Len(pl.powerplants))

\* variant: the product is truncated instead of rounded
LoadStepsTruncated(pl) == FMul(FromDec(pl.load, 100), 10)[4]

\* int(round(payload["load"] * 10))
LoadSteps(pl) == RoundInt(FMul(FromDec(pl.load, 100), 10))

\* ------------------------------------------------------------------------
\* dp_solving: candidate allocations of one plant
\* ------------------------------------------------------------------------
Tenth == FromDec(1, 10)

\* variant: the test is made after the first append (a do-while)
RECURSIVE WhileLoopTestAfter(_, _)
WhileLoopTestAfter(current, pmax) ==
  <<Round1(current)>> \o
    (IF FLe(FAdd(current, Tenth), pmax)
       THEN WhileLoopTestAfter(FAdd(current, Tenth), pmax)
       ELSE <<>>)

\* while current <= pmax: append round(current, 1); current += 0.1
RECURSIVE WhileLoop(_, _)
WhileLoop(current, pmax) ==
  IF FLe(current, pmax)
    THEN <<Round1(current)>> \o WhileLoop(FAdd(current, Tenth), pmax)
    ELSE <<>>

WindProd(fuels, plant) ==
  Round1(FDiv(FMul(FromDec(plant.pmax, 100), fuels.wind), 100))

Allocations(fuels, plant) ==
  IF plant.type = "windturbine"
    THEN <<Zero, WindProd(fuels, plant)>>
    ELSE <<Zero>> \o WhileLoop(FromDec(plant.pmin, 100), FromDec(plant.pmax, 100))

\* ------------------------------------------------------------------------
\* dp_solving: the table.  A dict is its entries in insertion order.
\* ------------------------------------------------------------------------
InitDp == <<[steps |-> 0, cost |-> Zero, allocs |-> <<>>]>>

HasKey(d, s) == \E j \in 1..Len(d) : d[j].steps = s
IndexOf(d, s) == CHOOSE j \in 1..Len(d) : d[j].steps = s
Lookup(d, s) == d[IndexOf(d, s)]

\* variants: the comparison reversed, and the comparison made non-strict
BetterReversed(new_cost, old_cost) == FLt(old_cost, new_cost)
BetterOrEqual(new_cost, old_cost) == FLe(new_cost, old_cost)

\* strict comparison of the update test
Better(new_cost, old_cost) == FLt(new_cost, old_cost)

\* if new_steps not in new_dp or new_cost < new_dp[new_steps][0]: store
Store(new_dp, new_steps, new_cost, temp_allocations) ==
  LET e == [steps |-> new_steps, cost |-> new_cost, allocs |-> temp_allocations]
  IN  IF ~HasKey(new_dp, new_steps) THEN Append(new_dp, e)
      ELSE IF Better(new_cost, Lookup(new_dp, new_steps).cost)
        THEN [new_dp EXCEPT ![IndexOf(new_dp, new_steps)] = e]
        ELSE new_dp

\* new_steps = steps + int(round((alloc * 10)))
NewSteps(steps, alloc) == steps + StepsOf(alloc)

\* for alloc in allocations (from position a on), for one table entry
RECURSIVE AllocLoop(_, _, _, _, _, _)
AllocLoop(new_dp, entry, allocations, a, cost, load_steps) ==
  IF a > Len(allocations) THEN new_dp
  ELSE
    LET alloc     == allocations[a]
        new_cost  == FAdd(entry.cost, FMul(alloc, cost))
        new_steps == NewSteps(entry.steps, alloc)
        next      == IF new_steps > load_steps THEN new_dp
                     ELSE Store(new_dp, new_steps, new_cost,
                                Append(entry.allocs, alloc))
    IN  AllocLoop(next, entry, allocations, a + 1, cost, load_steps)

\* for steps in dp (from position s on)
RECURSIVE StepsLoop(_, _, _, _, _, _)
StepsLoop(new_dp, d, s, allocations, cost, load_steps) ==
  IF s > Len(d) THEN new_dp
  ELSE StepsLoop(AllocLoop(new_dp, d[s], allocations, 1, cost, load_steps),
                 d, s + 1, allocations, cost, load_steps)

\* one iteration of "for plant in sorted_plants"
Integrate(d, fuels, plant, load_steps) ==
  StepsLoop(<<>>, d, 1, Allocations(fuels, plant),
            compute_cost(fuels, plant), load_steps)

\* ------------------------------------------------------------------------
\* dp_solving: result assembly
\* ------------------------------------------------------------------------
\* mapping = {p["name"]: a for p, a in zip(sorted_plants, allocations)};
\* a later pair with the same name overwrites an earlier one
Mapping(sorted, allocations, name) ==
  LET js == {j \in 1..Len(sorted) : sorted[j].name = name}
      j  == CHOOSE j \in js : \A h \in js : h <= j
  IN  allocations[j]

\* variant: the allocations are paired with the plants in input order
AssembleInInputOrder(pl, sorted, allocations) ==
  [j \in 1..Len(pl.powerplants) |->
     [name |-> pl.powerplants[j].name, p |-> allocations[j]]]

Assemble(pl, sorted, allocations) ==
  [j \in 1..Len(pl.powerplants) |->
     [name |-> pl.powerplants[j].name,
      p    |-> Mapping(sorted, allocations, pl.powerplants[j].name)]]

\* ------------------------------------------------------------------------
\* the whole call as a function of the payload
\* ------------------------------------------------------------------------
RECURSIVE DpAfter(_, _)
DpAfter(pl, k) ==
  IF k = 0 THEN InitDp
  ELSE Integrate(DpAfter(pl, k - 1), pl.fuels, SortedPlants(pl)[k], LoadSteps(pl))

Solve(pl) ==
  LET final == DpAfter(pl, Len(pl.powerplants))
  IN  IF ~HasKey(final, LoadSteps(pl))
        THEN [raised |-> TRUE, result |-> <<>>]
        ELSE [raised |-> FALSE,
              result |-> Assemble(pl, SortedPlants(pl),
                                  Lookup(final, LoadSteps(pl)).allocs)]

\* ------------------------------------------------------------------------
\* dp_solving as a state machine
\* ------------------------------------------------------------------------
VARIABLES payload, sorted_plants, load_steps, dp, i, pc, result

vars == <<payload, sorted_plants, load_steps, dp, i, pc, result>>

Init ==
  /\ payload \in Payloads
  /\ sorted_plants = <<>>
  /\ load_steps = 0
  /\ dp = <<>>
  /\ i = 0
  /\ pc = "start"
  /\ result = <<>>

\* lines 32-38: sort, discretise the load, initialise the table
Sort ==
  /\ pc = "start"
  /\ sorted_plants' = SortedPlants(payload)
  /\ load_steps' = LoadSteps(payload)
  /\ dp' = InitDp
  /\ i' = 1
  /\ pc' = "loop"
  /\ UNCHANGED <<payload, result>>

\* lines 41-76: the body of the plant loop for sorted_plants[i]
IntegratePlant ==
  /\ pc = "loop"
  /\ i <= Len(sorted_plants)
  /\ dp' = Integrate(dp, payload.fuels, sorted_plants[i], load_steps)
  /\ i' = i + 1
  /\ UNCHANGED <<payload, sorted_plants, load_steps, pc, result>>

\* lines 78-79
Raise ==
  /\ pc = "loop"
  /\ i > Len(sorted_plants)
  /\ ~HasKey(dp, load_steps)
  /\ pc' = "raised"
  /\ UNCHANGED <<payload, sorted_plants, load_steps, dp, i, result>>

\* lines 81-86
Return ==
  /\ pc = "loop"
  /\ i > Len(sorted_plants)
  /\ HasKey(dp, load_steps)
  /\ result' = Assemble(payload, sorted_plants, Lookup(dp, load_steps).allocs)
  /\ pc' = "returned"
  /\ UNCHANGED <<payload, sorted_plants, load_steps, dp, i>>

Next == Sort \/ IntegratePlant \/ Raise \/ Return

Spec == Init /\ [][Next]_vars

TypeOK ==
  /\ pc \in {"start", "loop", "raised", "returned"}
  /\ i \in 0..(MaxPlants + 2)

\* ------------------------------------------------------------------------
\* Notions of the specification, in exact decimal arithmetic (steps of 0.1)
\* ------------------------------------------------------------------------
RECURSIVE SumTo(_, _)
SumTo(f, n) == IF n = 0 THEN 0 ELSE f[n] + SumTo(f, n - 1)

\* a value in hundredths rounded to the nearest tenth, ties to even
DecRound(h) ==
  LET q == h \div 10
      r == h % 10
  IN  IF r > 5 \/ (r = 5 /\ q % 2 = 1) THEN q + 1 ELSE q

\* target load-steps round(load*10)
TargetSteps(pl) == DecRound(pl.load)

\* candidate outputs of a plant in steps: wind 0 or round(pmax*wind%/100, 1),
\* non-wind 0 or pmin, pmin+0.1, ... up to pmax, each rounded to one decimal
CandidateSteps(fuels, plant) ==
  IF plant.type = "windturbine"
    THEN {0, DecRound((plant.pmax * fuels.wind) \div 100)}
    ELSE {0} \cup {DecRound(plant.pmin + 10 * j) :
                     j \in {n \in 0..plant.pmax : plant.pmin + 10 * n <= plant.pmax}}

AllCandidateSteps(fuels, plants) ==
  UNION {CandidateSteps(fuels, plants[j]) : j \in 1..Len(plants)}

\* one candidate per plant
Choices(fuels, plants) ==
  {c \in [1..Len(plants) -> AllCandidateSteps(fuels, plants)] :
      \A j \in 1..Len(plants) : c[j] \in CandidateSteps(fuels, plants[j])}

\* total cost of a choice, in tenths of a currency unit
ChoiceCost(fuels, plants, c) ==
  SumTo([j \in 1..Len(plants) |-> c[j] * compute_cost(fuels, plants[j])], Len(plants))

ResultSteps(res) == [j \in 1..Len(res) |-> StepsOf(res[j].p)]

ResultCost(pl, res) == ChoiceCost(pl.fuels, pl.powerplants, ResultSteps(res))

IsWind(plant) == plant.type = "windturbine"

\* ------------------------------------------------------------------------
\* C1  Cost minimality: when a result is returned, no choice of one
\* candidate per plant that sums to the target load-steps costs strictly
\* less than the returned allocation.
\* ------------------------------------------------------------------------
C1_CostMinimality ==
  pc = "returned" =>
    \A c \in Choices(payload.fuels, payload.powerplants) :
      SumTo(c, Len(c)) = TargetSteps(payload) =>
        ChoiceCost(payload.fuels, payload.powerplants, c) >= ResultCost(payload, result)

\* ------------------------------------------------------------------------
\* C2  Sum property: the returned outputs, in tenths, sum to round(load*10).
\* ------------------------------------------------------------------------
C2_SumProperty ==
  pc = "returned" =>
    SumTo(ResultSteps(result), Len(result)) = TargetSteps(payload)

C2_Witness ==
  /\ pc = "returned"
  /\ Len(result) >= 2
  /\ \E j, k \in 1..Len(result) :
       j # k /\ StepsOf(result[j].p) > 0 /\ StepsOf(result[k].p) > 0
  /\ payload.load = 16

\* ------------------------------------------------------------------------
\* C3  Bounds property: every returned p satisfies 0 <= p <= pmax; a
\* non-wind p is 0 or at least pmin; a wind p is 0 or exactly
\* round(pmax * wind% / 100, 1).
\* ------------------------------------------------------------------------
C3_BoundsProperty ==
  pc = "returned" =>
    \A j \in 1..Len(result) :
      LET plant == payload.powerplants[j]
          p     == result[j].p
      IN  /\ FLe(Zero, p)
          /\ FLe(p, FromDec(plant.pmax, 100))
          /\ ~IsWind(plant) => (p = Zero \/ FLe(FromDec(plant.pmin, 100), p))
          /\ IsWind(plant) =>
               p \in {Zero, FromDec(DecRound((plant.pmax * payload.fuels.wind) \div 100), 10)}

\* ------------------------------------------------------------------------
\* C4  Infeasibility: the call raises exactly when no choice of one
\* candidate per plant sums to the target load-steps, and then returns
\* nothing; otherwise it returns a result.
\* ------------------------------------------------------------------------
Feasible(pl) ==
  \E c \in Choices(pl.fuels, pl.powerplants) : SumTo(c, Len(c)) = TargetSteps(pl)

C4_Infeasibility ==
  /\ pc = "raised" => ~Feasible(payload) /\ result = <<>>
  /\ pc = "returned" => Feasible(payload)
  /\ (pc = "loop" /\ i > Len(sorted_plants)) => (HasKey(dp, load_steps) <=> Feasible(payload))

\* ------------------------------------------------------------------------
\* C5  Merit order: the processing sequence is a permutation of the input
\* plants with every windturbine before every non-wind plant, ascending
\* cost within a category, and input order kept among equal keys.
\* ------------------------------------------------------------------------
InputPos(plant) == CHOOSE j \in 1..Len(payload.powerplants) : payload.powerplants[j] = plant

IsPermutationOfInput(s) ==
  /\ Len(s) = Len(payload.powerplants)
  /\ \A j \in 1..Len(payload.powerplants) : \E k \in 1..Len(s) : s[k] = payload.powerplants[j]

C5_MeritOrder ==
  pc # "start" =>
    /\ IsPermutationOfInput(sorted_plants)
    /\ \A j, k \in 1..Len(sorted_plants) :
         j < k =>
           LET x == sorted_plants[j]
               y == sorted_plants[k]
               cx == compute_cost(payload.fuels, x)
               cy == compute_cost(payload.fuels, y)
           IN  /\ ~(~IsWind(x) /\ IsWind(y))
               /\ IsWind(x) = IsWind(y) => cx <= cy
               /\ (IsWind(x) = IsWind(y) /\ cx = cy) => InputPos(x) < InputPos(y)

\* ------------------------------------------------------------------------
\* C6  Result assembly: one entry per input plant, in input order, carrying
\* that plant's name and the output the winning allocation gave it at its
\* merit-order position.
\* ------------------------------------------------------------------------
C6_ResultAssembly ==
  pc = "returned" =>
    /\ Len(result) = Len(payload.powerplants)
    /\ \A j \in 1..Len(payload.powerplants) :
         /\ result[j].name = payload.powerplants[j].name
         /\ \A k \in 1..Len(sorted_plants) :
              sorted_plants[k].name = payload.powerplants[j].name =>
                result[j].p = Lookup(dp, load_steps).allocs[k]

C6_Witness ==
  /\ pc = "returned"
  /\ Len(result) >= 2
  /\ sorted_plants[1].name = payload.powerplants[2].name
  /\ result[1].p # result[2].p
  /\ result[2].p = Lookup(dp, load_steps).allocs[1]

\* ------------------------------------------------------------------------
\* C7  Monotonic cost response: raising the marginal cost of one non-wind
\* plant X (all else equal, both payloads feasible) does not lower the
\* total cost of the returned allocation and does not raise X's output.
\* ------------------------------------------------------------------------
\* the same payload with plant x half as efficient, hence twice as costly
Costlier(pl, x) ==
  [pl EXCEPT !.powerplants[x].efficiency = pl.powerplants[x].efficiency \div 2]

CostRaised(pl, x) ==
  /\ ~IsWind(pl.powerplants[x])
  /\ compute_cost(Costlier(pl, x).fuels, Costlier(pl, x).powerplants[x])
       > compute_cost(pl.fuels, pl.powerplants[x])

C7_MonotonicCost ==
  pc = "returned" =>
    \A x \in 1..Len(payload.powerplants) :
      CostRaised(payload, x) =>
        LET second == Solve(Costlier(payload, x))
        IN  ~second.raised =>
              /\ ResultCost(Costlier(payload, x), second.result) >= ResultCost(payload, result)
              /\ FLe(second.result[x].p, result[x].p)

C7_Witness ==
  /\ pc = "returned"
  /\ \E x \in 1..Len(payload.powerplants) :
       /\ CostRaised(payload, x)
       /\ ~Solve(Costlier(payload, x)).raised
       /\ FLt(Solve(Costlier(payload, x)).result[x].p, result[x].p)
       /\ ResultCost(Costlier(payload, x), Solve(Costlier(payload, x)).result)
            > ResultCost(payload, result)

\* ------------------------------------------------------------------------
\* C8  DP table invariant: after the first k plants in merit order the
\* table holds a key s exactly when 0 <= s <= load-steps and some choice of
\* one candidate per plant among those k sums to s; the entry of s has k
\* allocations summing to s, their cost, and that cost is the least one.
\* ------------------------------------------------------------------------
Prefix(s, k) == SubSeq(s, 1, k)

ReachableSums(fuels, plants, limit) ==
  {SumTo(c, Len(c)) : c \in Choices(fuels, plants)} \cap 0..limit

C8_TableInvariant ==
  pc = "loop" =>
    LET k      == i - 1
        plants == Prefix(sorted_plants, k)
    IN  /\ {dp[j].steps : j \in 1..Len(dp)}
             = ReachableSums(payload.fuels, plants, TargetSteps(payload))
        /\ \A j \in 1..Len(dp) :
             LET steps == [n \in 1..Len(dp[j].allocs) |-> StepsOf(dp[j].allocs[n])]
             IN  /\ Len(dp[j].allocs) = k
                 /\ SumTo(steps, k) = dp[j].steps
                 /\ RoundInt(FMul(dp[j].cost, 10)) = ChoiceCost(payload.fuels, plants, steps)
                 /\ \A c \in Choices(payload.fuels, plants) :
                      SumTo(c, k) = dp[j].steps =>
                        ChoiceCost(payload.fuels, plants, c)
                          >= ChoiceCost(payload.fuels, plants, steps)

\* ------------------------------------------------------------------------
\* C9  Tie-breaking: while a plant is integrated, when a transition giving
\* the plant 0 and a transition giving it a positive amount reach the same
\* step count at equal cost, the entry stored for that step count is not
\* the positive one.
\* ------------------------------------------------------------------------
TransitionCost(entry, alloc, cost) == FAdd(entry.cost, FMul(alloc, cost))

C9_TieKeepsZero ==
  [][IntegratePlant =>
       LET allocations == Allocations(payload.fuels, sorted_plants[i])
           cost        == compute_cost(payload.fuels, sorted_plants[i])
       IN  \A z, q \in 1..Len(dp) : \A a \in 1..Len(allocations) :
             ( /\ allocations[a] # Zero
               /\ NewSteps(dp[q].steps, allocations[a]) = dp[z].steps
               /\ dp[z].steps <= load_steps
               /\ TransitionCost(dp[q], allocations[a], cost)
                    = TransitionCost(dp[z], Zero, cost) )
             => Lookup(dp', dp[z].steps).allocs # Append(dp[q].allocs, allocations[a])
    ]_vars

\* as amended: the entry stored for a step count is the transition
\* enumerated first (table entries in insertion order, then candidates in
\* list order) among the transitions of least cost that reach it
Transitions(d, allocations, s) ==
  {t \in (1..Len(d)) \X (1..Len(allocations)) :
      NewSteps(d[t[1]].steps, allocations[t[2]]) = s}

EnumeratedBefore(t, u) == t[1] < u[1] \/ (t[1] = u[1] /\ t[2] <= u[2])

C9_FirstFoundKept ==
  [][IntegratePlant =>
       LET allocations == Allocations(payload.fuels, sorted_plants[i])
           cost        == compute_cost(payload.fuels, sorted_plants[i])
           c           == [t \in (1..Len(dp)) \X (1..Len(allocations)) |->
                             TransitionCost(dp[t[1]], allocations[t[2]], cost)]
       IN  \A j \in 1..Len(dp') :
             LET T     == Transitions(dp, allocations, dp'[j].steps)
                 first == CHOOSE t \in T :
                            \A u \in T : \/ FLt(c[t], c[u])
                                         \/ c[t] = c[u] /\ EnumeratedBefore(t, u)
             IN  /\ T # {}
                 /\ dp'[j].cost = c[first]
                 /\ dp'[j].allocs = Append(dp[first[1]].allocs, allocations[first[2]])
    ]_vars

\* two plants of equal positive cost integrated; an entry gives the second
\* a positive amount that the first could have produced instead
C9_Witness ==
  /\ pc = "loop"
  /\ i = 3
  /\ compute_cost(payload.fuels, sorted_plants[1]) = compute_cost(payload.fuels, sorted_plants[2])
  /\ compute_cost(payload.fuels, sorted_plants[1]) > 0
  /\ \E j \in 1..Len(dp) :
       /\ dp[j].allocs[1] = Zero
       /\ dp[j].allocs[2] # Zero
       /\ \E a \in 1..Len(Allocations(payload.fuels, sorted_plants[1])) :
            Allocations(payload.fuels, sorted_plants[1])[a] = dp[j].allocs[2]

\* ------------------------------------------------------------------------
\* C10  Degenerate range: a non-wind plant with pmax < pmin has 0 as its
\* only candidate, gets p = 0 in every returned result, and whether the
\* call raises is decided by the other plants alone.
\* ------------------------------------------------------------------------
Degenerate(plant) == ~IsWind(plant) /\ plant.pmax < plant.pmin

Without(pl, x) ==
  [pl EXCEPT !.powerplants =
     SubSeq(pl.powerplants, 1, x - 1) \o SubSeq(pl.powerplants, x + 1, Len(pl.powerplants))]

C10_DegenerateRange ==
  \A x \in 1..Len(payload.powerplants) :
    Degenerate(payload.powerplants[x]) =>
      /\ Allocations(payload.fuels, payload.powerplants[x]) = <<Zero>>
      /\ pc = "returned" => result[x].p = Zero /\ ~Solve(Without(payload, x)).raised
      /\ pc = "raised" => Solve(Without(payload, x)).raised

C10_Witness ==
  /\ pc = "returned"
  /\ \E x, y \in 1..Len(payload.powerplants) :
       /\ Degenerate(payload.powerplants[x])
       /\ result[x].p = Zero
       /\ result[y].p # Zero

====
